---- MODULE Spec2Model ----
(***************************************************************************)
(* A model of the shared-expense ledger of src/src/lib.rs (module          *)
(* payments) driven by the read loop of src/src/main.rs.                   *)
(*                                                                         *)
(* The state is the Payment store (participants, tasks), the files the     *)
(* load and save commands touch, and history variables that record the     *)
(* last command, its result and the store before it, and whether the last  *)
(* line repeats the line before it.                                        *)
(*                                                                         *)
(* f32 arithmetic is modelled by exact rationals (num/den) extended with   *)
(* the IEEE values inf, -inf and NaN that a division by zero yields; for   *)
(* the magnitudes explored here the f32 rounding error never reaches the   *)
(* half unit that Round decides on.                                        *)
(***************************************************************************)
EXTENDS Integers, Sequences, FiniteSets, TLC

VARIABLES participants, tasks, disk, panicked, last, prev, scen, ncmds, rep

vars == <<participants, tasks, disk, panicked, last, prev, scen, ncmds, rep>>

(***************************************************************************)
(* Bounds of the exploration.                                              *)
(***************************************************************************)
\* number of input lines the read loop is fed
MaxCmds == 4
\* longest payments_made vector explored
MaxPayments == 2

(***************************************************************************)
(* Small helpers on functions and sequences.                               *)
(***************************************************************************)
Insert(f, k, v) == [x \in (DOMAIN f) \cup {k} |-> IF x = k THEN v ELSE f[x]]

EmptyMap == [x \in {} |-> 0]

Range(s) == {s[i] : i \in DOMAIN s}

RECURSIVE SetToSeq(_)
SetToSeq(S) == IF S = {} THEN <<>>
               ELSE LET x == CHOOSE y \in S : TRUE
                    IN <<x>> \o SetToSeq(S \ {x})

(***************************************************************************)
(* Results: PaymentResult = Result<(), String>, plus the panic that        *)
(* unwinds out of command and ends the process.                            *)
(***************************************************************************)
Ok == [k |-> "Ok", msg |-> ""]
Err(m) == [k |-> "Err", msg |-> m]
Panic == [k |-> "Panic", msg |-> ""]

None == [some |-> FALSE, val |-> ""]
Some(v) == [some |-> TRUE, val |-> v]

(***************************************************************************)
(* f32 values: finite rationals and the IEEE specials.                     *)
(***************************************************************************)
Fin(n, d) == [k |-> "fin", num |-> n, den |-> d]
Inf == [k |-> "inf", num |-> 0, den |-> 1]
NInf == [k |-> "ninf", num |-> 0, den |-> 1]
NaN == [k |-> "nan", num |-> 0, den |-> 1]

FDiv(a, n) == IF n # 0 THEN Fin(a, n)
              ELSE IF a > 0 THEN Inf
              ELSE IF a < 0 THEN NInf
              ELSE NaN

FAdd(a, b) ==
    IF a.k = "nan" \/ b.k = "nan" THEN NaN
    ELSE IF a.k = "fin" /\ b.k = "fin"
         THEN Fin(a.num * b.den + b.num * a.den, a.den * b.den)
    ELSE IF a.k = "fin" THEN b
    ELSE IF b.k = "fin" THEN a
    ELSE IF a.k = b.k THEN a
    ELSE NaN

FNeg(a) == IF a.k = "fin" THEN Fin(0 - a.num, a.den)
           ELSE IF a.k = "inf" THEN NInf
           ELSE IF a.k = "ninf" THEN Inf
           ELSE NaN

FSub(a, b) == FAdd(a, FNeg(b))

\* f32::round: to the nearest integer, halves away from zero
RoundFrac(n, d) == IF n >= 0 THEN (2 * n + d) \div (2 * d)
                   ELSE 0 - ((2 * (0 - n) + d) \div (2 * d))

\* the Option<f32> field sum, kept in minor units: the value displayed is
\* v / 100
NoSum == [k |-> "None", v |-> 0]
SomeSum(a) == IF a.k = "fin" THEN [k |-> "fin", v |-> RoundFrac(a.num, a.den)]
              ELSE [k |-> a.k, v |-> 0]

(***************************************************************************)
(* Participant and Task records.  A participant's tasks map holds          *)
(* RefCell<Task> values: each entry is its own Task record, made by        *)
(* RefCell::clone from the store's record at the time of the insert.       *)
(***************************************************************************)
NewParticipant(name) ==
    [name |-> name, tasks |-> EmptyMap, paid_tasks |-> {},
     payments_made |-> <<>>, sum |-> NoSum]

NewTask(name, owner, parts, cost) ==
    [name |-> name, owner |-> owner, participants |-> parts, cost |-> cost]

RECURSIVE SumShares(_, _)
SumShares(tmap, S) ==
    IF S = {} THEN Fin(0, 1)
    ELSE LET t == CHOOSE x \in S : TRUE
         IN FAdd(FDiv(tmap[t].cost, Cardinality(tmap[t].participants)),
                 SumShares(tmap, S \ {t}))

RECURSIVE SumPaid(_, _)
SumPaid(tmap, S) ==
    IF S = {} THEN 0
    ELSE LET t == CHOOSE x \in S : TRUE
         IN tmap[t].cost + SumPaid(tmap, S \ {t})

RECURSIVE SumSeq(_)
SumSeq(s) == IF s = <<>> THEN 0 ELSE s[1] + SumSeq(Tail(s))

\* Participant::calculate: the unwrap of line 50 panics when a paid task is
\* not among the participant's own tasks
CalculatePanics(p) == ~(p.paid_tasks \subseteq DOMAIN p.tasks)

\* calculate adding to the cached balance instead of starting from zero
ParticipantCalculateAccumulates(p) ==
    LET base == IF p.sum.k = "fin" THEN Fin(p.sum.v, 1) ELSE Fin(0, 1)
        shares == SumShares(p.tasks, DOMAIN p.tasks)
        paid == Fin(SumPaid(p.tasks, p.paid_tasks), 1)
        pays == Fin(SumSeq(p.payments_made), 1)
    IN [p EXCEPT !.sum = SomeSum(FAdd(base, FSub(FSub(shares, paid), pays)))]

ParticipantCalculate(p) ==
    LET shares == SumShares(p.tasks, DOMAIN p.tasks)
        paid == Fin(SumPaid(p.tasks, p.paid_tasks), 1)
        pays == Fin(SumSeq(p.payments_made), 1)
    IN [p EXCEPT !.sum = SomeSum(FSub(FSub(shares, paid), pays))]

\* Payment::calculate
PaymentCalculatePanics(P) == \E n \in DOMAIN P : CalculatePanics(P[n])

PaymentCalculate(P) == [n \in DOMAIN P |-> ParticipantCalculate(P[n])]

(***************************************************************************)
(* What a handler returns: the store and the files after it, its result,   *)
(* and the balances it printed (pairs <<name, sum>>).                      *)
(***************************************************************************)
Outcome(P, T, D, r, o) ==
    [participants |-> P, tasks |-> T, disk |-> D, res |-> r, out |-> o]

\* append_err keeping only the first message
AppendErrFirstOnly(res, possible_msg) ==
    IF ~possible_msg.some THEN res
    ELSE IF res.k = "Err" THEN res
    ELSE Err(possible_msg.val)

\* Payment::append_err
AppendErr(res, possible_msg) ==
    IF ~possible_msg.some THEN res
    ELSE IF res.k = "Err" THEN Err(res.msg \o "\n" \o possible_msg.val)
    ELSE Err(possible_msg.val)

\* Result::err
ErrOf(res) == IF res.k = "Err" THEN Some(res.msg) ELSE None

\* Payment::verify_name
VerifyName(P, T, arg) ==
    IF arg = "" THEN Err("Not enough arguments")
    ELSE IF arg \in {"-a", "all"} THEN Err("invalid name " \o arg)
    ELSE IF arg \in DOMAIN P THEN Err("A participant named " \o arg \o " exists")
    ELSE IF arg \in DOMAIN T THEN Err("A task named " \o arg \o " exists")
    ELSE Ok

\* the loop of Payment::add over the arguments
RECURSIVE AddLoop(_, _, _, _)
AddLoop(P, T, args, ret) ==
    IF args = <<>> THEN [participants |-> P, res |-> ret]
    ELSE LET arg == Head(args)
         IN AddLoop(Insert(P, arg, NewParticipant(arg)), T, Tail(args),
                    AppendErr(ret, ErrOf(VerifyName(P, T, arg))))

\* Payment::add
Add(P, T, D, args) ==
    IF args = <<>> THEN Outcome(P, T, D, Err("Not enough arguments"), {})
    ELSE LET r == AddLoop(P, T, args, Ok)
         IN Outcome(r.participants, T, D, r.res, {})

\* Payment::verify_part: the participant's key, or the error
VerifyPart(P, arg) ==
    IF ~arg.some \/ arg.val = "" THEN Err("Not enough arguments")
    ELSE IF arg.val \notin DOMAIN P
         THEN Err("Participant " \o arg.val \o " has not yet been added")
    ELSE Ok

\* Payment::verify_task
VerifyTask(T, arg) ==
    IF ~arg.some \/ arg.val = "" THEN Err("Not enough arguments")
    ELSE IF arg.val \notin DOMAIN T
         THEN Err("Task " \o arg.val \o " has not yet been added")
    ELSE Ok

\* slice::get
Get(args, i) == IF i + 1 \in DOMAIN args THEN Some(args[i + 1]) ELSE None

\* the loop of part leaving the cached balance of the participant in place
RECURSIVE PartLoopKeepsSum(_, _, _, _, _)
PartLoopKeepsSum(P, T, key, args, ret) ==
    IF args = <<>> THEN [participants |-> P, tasks |-> T, res |-> ret]
    ELSE LET arg == Head(args)
             v == VerifyPart(P, Some(arg))
         IN IF v.k = "Err"
            THEN PartLoopKeepsSum(P, T, key, Tail(args), AppendErr(ret, ErrOf(v)))
            ELSE LET task == T[key]
                     p1 == [P[arg] EXCEPT !.tasks = Insert(@, task.name, task)]
                     t1 == [task EXCEPT !.participants = @ \cup {arg}]
                 IN PartLoopKeepsSum([P EXCEPT ![arg] = p1],
                                     [T EXCEPT ![key] = t1], key, Tail(args), ret)

\* the loop of Payment::part: key is the store's key of the task
RECURSIVE PartLoop(_, _, _, _, _)
PartLoop(P, T, key, args, ret) ==
    IF args = <<>> THEN [participants |-> P, tasks |-> T, res |-> ret]
    ELSE LET arg == Head(args)
             v == VerifyPart(P, Some(arg))
         IN IF v.k = "Err"
            THEN PartLoop(P, T, key, Tail(args), AppendErr(ret, ErrOf(v)))
            ELSE LET task == T[key]
                     p1 == [P[arg] EXCEPT !.sum = NoSum,
                                !.tasks = Insert(@, task.name, task)]
                     t1 == [task EXCEPT !.participants = @ \cup {arg}]
                 IN PartLoop([P EXCEPT ![arg] = p1], [T EXCEPT ![key] = t1],
                             key, Tail(args), ret)

\* part clearing the cached balance of every listed participant before it
\* looks the task up
PartInvalidatesFirst(P, T, D, args) ==
    LET P0 == [n \in DOMAIN P |->
                  IF n \in Range(args) THEN [P[n] EXCEPT !.sum = NoSum]
                  ELSE P[n]]
    IN IF Len(args) <= 1 THEN Outcome(P, T, D, Err("Not enough arguments"), {})
       ELSE IF args[1] = "all" /\ args[2] = "all"
            THEN Outcome(P, T, D, Err("Not implemented yet"), {})
       ELSE LET v == VerifyTask(T, Get(args, 0))
            IN IF v.k = "Err" THEN Outcome(P0, T, D, v, {})
               ELSE LET r == PartLoop(P, T, args[1], Tail(args), Ok)
                    IN Outcome(r.participants, r.tasks, D, r.res, {})

\* Payment::part
Part(P, T, D, args) ==
    IF Len(args) <= 1 THEN Outcome(P, T, D, Err("Not enough arguments"), {})
    ELSE IF args[1] = "all" /\ args[2] = "all"
         THEN Outcome(P, T, D, Err("Not implemented yet"), {})
    ELSE LET v == VerifyTask(T, Get(args, 0))
         IN IF v.k = "Err" THEN Outcome(P, T, D, v, {})
            ELSE LET r == PartLoop(P, T, args[1], Tail(args), Ok)
                 IN Outcome(r.participants, r.tasks, D, r.res, {})

(***************************************************************************)
(* Amounts.  str::parse::<f32> followed by (p * 100f32) as i32, tabulated  *)
(* for the decimal tokens the commands are fed; every other token fails    *)
(* to parse.                                                               *)
(***************************************************************************)
DecimalTokens == {"30.00", "7", "-5"}

ParseF32Times100(tok) ==
    CASE tok = "30.00" -> 3000
      [] tok = "7" -> 700
      [] tok = "-5" -> 0 - 500

\* Payment::verify_amount
VerifyAmount(arg) ==
    IF ~arg.some \/ arg.val = "" THEN Err("Not enough arguments")
    ELSE IF arg.val \in DecimalTokens THEN Ok
    ELSE Err(arg.val \o " not a valid decimal number for the price")

\* Payment::payment
Payment(P, T, D, args) ==
    LET v == VerifyPart(P, Get(args, 0))
        a == VerifyAmount(Get(args, 1))
    IN IF v.k = "Err" THEN Outcome(P, T, D, v, {})
       ELSE IF a.k = "Err" THEN Outcome(P, T, D, a, {})
       ELSE Outcome([P EXCEPT ![args[1]].payments_made =
                                  Append(@, ParseF32Times100(args[2]))],
                    T, D, Ok, {})

(***************************************************************************)
(* print: recompute every balance, then write the chosen lines.  out is    *)
(* the set of <<name, sum>> lines written.                                 *)
(***************************************************************************)
Balances(P, S) == {<<P[n].name, P[n].sum>> : n \in S}

RECURSIVE PrintLoop(_, _, _)
PrintLoop(P, args, shown) ==
    IF args = <<>>
    THEN IF shown = {} THEN Balances(P, DOMAIN P) ELSE Balances(P, shown)
    ELSE IF Head(args) = "-a" THEN Balances(P, shown \cup DOMAIN P)
    ELSE IF Head(args) = "-t" THEN Balances(P, shown)
    ELSE IF Head(args) \in DOMAIN P
         THEN PrintLoop(P, Tail(args), shown \cup {Head(args)})
    ELSE PrintLoop(P, Tail(args), shown)

\* print taking the participants it shows out of the store
PrintCmdRemoves(P, T, D, args) ==
    IF PaymentCalculatePanics(P) THEN Outcome(P, T, D, Panic, {})
    ELSE LET P1 == PaymentCalculate(P)
             kept == DOMAIN P \ Range(args)
         IN Outcome([n \in kept |-> P1[n]], T, D, Ok, PrintLoop(P1, args, {}))

\* Payment::print (command returns Ok after it)
PrintCmd(P, T, D, args) ==
    IF PaymentCalculatePanics(P) THEN Outcome(P, T, D, Panic, {})
    ELSE LET P1 == PaymentCalculate(P)
         IN Outcome(P1, T, D, Ok, PrintLoop(P1, args, {}))

(***************************************************************************)
(* The transport form and the files.                                       *)
(***************************************************************************)
\* impl From<&Participant> for TransportParticipant
TransportParticipantFrom(part) ==
    [name |-> part.name,
     tasks |-> SetToSeq(DOMAIN part.tasks),
     paid_tasks |-> SetToSeq(part.paid_tasks),
     payments_made |-> Some(part.payments_made)]

\* impl From<&RefCell<Task>> for TransportTask
TransportTaskFrom(task) ==
    [name |-> task.name, owner |-> task.owner,
     participants |-> SetToSeq(task.participants), cost |-> task.cost]

\* impl From<&Payment> for TransportPayment
TransportPaymentFrom(P, T) ==
    [participants |-> [n \in DOMAIN P |-> TransportParticipantFrom(P[n])],
     tasks |-> [n \in DOMAIN T |-> TransportTaskFrom(T[n])]]

\* impl From<&TransportTask> for Task
TaskFrom(tt) == NewTask(tt.name, tt.owner, Range(tt.participants), tt.cost)

\* ParticipantFrom with the copy of payments_made left out
ParticipantFromNoPayments(tp) ==
    [name |-> tp.name, tasks |-> EmptyMap, paid_tasks |-> Range(tp.paid_tasks),
     payments_made |-> <<>>, sum |-> NoSum]

\* impl From<&TransportParticipant> for Participant
ParticipantFrom(tp) ==
    [name |-> tp.name, tasks |-> EmptyMap, paid_tasks |-> Range(tp.paid_tasks),
     payments_made |-> IF tp.payments_made.some THEN tp.payments_made.val
                       ELSE <<>>,
     sum |-> NoSum]

\* impl From<&TransportPayment> for Payment: the unwrap of line 234 panics
\* when a participant lists a task the document has no record of
PaymentFromPanics(tp) ==
    \E n \in DOMAIN tp.participants :
        ~(Range(tp.participants[n].tasks) \subseteq DOMAIN tp.tasks)

PaymentFrom(tp) ==
    LET T == [n \in DOMAIN tp.tasks |-> TaskFrom(tp.tasks[n])]
    IN [participants |->
            [n \in DOMAIN tp.participants |->
                [ParticipantFrom(tp.participants[n]) EXCEPT !.tasks =
                    [t \in Range(tp.participants[n].tasks) |-> T[t]]]],
        tasks |-> T]

EmptyDoc == [participants |-> EmptyMap, tasks |-> EmptyMap]
Garbage == [kind |-> "garbage", doc |-> EmptyDoc]
Doc(tp) == [kind |-> "doc", doc |-> tp]

\* the files are a map from the paths that exist to their contents; in
\* these paths the directory does not exist, so File::create fails
Uncreatable == {"nodir/x"}

\* Load rebuilding the store in place: the store is emptied once the path
\* is known, before the file is opened and read
LoadInPlace(P, T, D, args) ==
    LET f == Get(args, 0)
    IN IF ~f.some THEN Outcome(P, T, D, Err("Not enough arguments"), {})
       ELSE IF f.val \notin DOMAIN D
            THEN Outcome(EmptyMap, EmptyMap, D,
                         Err("Unable to open file " \o f.val), {})
       ELSE IF D[f.val].kind = "garbage"
            THEN Outcome(EmptyMap, EmptyMap, D,
                         Err("Error deserializing file:\n"), {})
       ELSE IF PaymentFromPanics(D[f.val].doc)
            THEN Outcome(P, T, D, Panic, {})
       ELSE LET payment == PaymentFrom(D[f.val].doc)
            IN Outcome(payment.participants, payment.tasks, D, Ok, {})

\* Payment::load
Load(P, T, D, args) ==
    LET f == Get(args, 0)
    IN IF ~f.some THEN Outcome(P, T, D, Err("Not enough arguments"), {})
       ELSE IF f.val \notin DOMAIN D
            THEN Outcome(P, T, D, Err("Unable to open file " \o f.val), {})
       ELSE IF D[f.val].kind = "garbage"
            THEN Outcome(P, T, D, Err("Error deserializing file:\n"), {})
       ELSE IF PaymentFromPanics(D[f.val].doc)
            THEN Outcome(P, T, D, Panic, {})
       ELSE LET payment == PaymentFrom(D[f.val].doc)
            IN Outcome(payment.participants, payment.tasks, D, Ok, {})

\* Payment::save_file
SaveFile(P, T, D, filename) ==
    IF filename \in Uncreatable
    THEN Outcome(P, T, D, Err("Unable to open file " \o filename), {})
    ELSE Outcome(P, T, Insert(D, filename, Doc(TransportPaymentFrom(P, T))),
                 Ok, {})

\* Payment::save_string
SaveString(P, T, D) == Outcome(P, T, D, Ok, {})

\* Payment::save
Save(P, T, D, args) ==
    IF Get(args, 0).some THEN SaveFile(P, T, D, args[1])
    ELSE SaveString(P, T, D)

(***************************************************************************)
(* command.  An input line is its non-empty tokens and whether white       *)
(* space follows the last of them (read_line keeps the newline; the last   *)
(* line of the input may lack it, and at end of input the line is empty).  *)
(***************************************************************************)
Line(toks, nl) == [toks |-> toks, nl |-> nl]

\* Regex::new (r"\s+").split (com): a separator at the end of the text
\* leaves an empty last piece, and the empty text is one empty piece
RegexSplit(line) ==
    IF line.toks = <<>> THEN IF line.nl THEN <<"", "">> ELSE <<"">>
    ELSE IF line.nl THEN Append(line.toks, "") ELSE line.toks

\* the match of command on parts.get (0)
Dispatch(P, T, D, verb, end) ==
    CASE verb = "add" -> Add(P, T, D, end)
      [] verb = "part" -> Part(P, T, D, end)
      [] verb = "payment" -> Payment(P, T, D, end)
      [] verb = "print" -> PrintCmd(P, T, D, end)
      [] verb = "save" -> Save(P, T, D, end)
      [] verb = "load" -> Load(P, T, D, end)
      [] OTHER -> Outcome(P, T, D,
                          Err(verb \o " is not recognized as a command"), {})

\* Payment::command: the slice parts[1..parts.len () - 1] panics when parts
\* has a single element
Command(P, T, D, line) ==
    LET parts == RegexSplit(line)
    IN IF Len(parts) - 1 < 1 THEN Outcome(P, T, D, Panic, {})
       ELSE Dispatch(P, T, D, parts[1], SubSeq(parts, 2, Len(parts) - 1))

(***************************************************************************)
(* The snapshot files found on disk when the program starts.               *)
(***************************************************************************)
TP(name, ts, paid, pays) ==
    [name |-> name, tasks |-> ts, paid_tasks |-> paid, payments_made |-> pays]

TT(name, owner, parts, cost) ==
    [name |-> name, owner |-> owner, participants |-> parts, cost |-> cost]

\* a well-formed ledger: A paid 30.00 for T
GoodDoc ==
    [participants |-> [n \in {"A"} |-> TP("A", <<"T">>, <<"T">>, None)],
     tasks |-> [n \in {"T"} |-> TT("T", "A", <<"A">>, 3000)]]

\* A lists a task the document has no record of
DanglingDoc ==
    [participants |-> [n \in {"A"} |-> TP("A", <<"U">>, <<>>, Some(<<>>))],
     tasks |-> EmptyMap]

\* A lists T, and T's participants do not list A
NotMemberDoc ==
    [participants |->
        [n \in {"A", "B"} |->
            IF n = "A" THEN TP("A", <<"T">>, <<>>, Some(<<>>))
            ELSE TP("B", <<"T">>, <<"T">>, Some(<<>>))],
     tasks |-> [n \in {"T"} |-> TT("T", "B", <<"B">>, 3000)]]

\* A paid for T and does not list T among its tasks
PaidOnlyDoc ==
    [participants |-> [n \in {"A"} |-> TP("A", <<>>, <<"T">>, Some(<<>>))],
     tasks |-> [n \in {"T"} |-> TT("T", "A", <<"A">>, 3000)]]

\* T has no participants at all
NoPartsDoc ==
    [participants |-> [n \in {"A"} |-> TP("A", <<"T">>, <<"T">>, Some(<<>>))],
     tasks |-> [n \in {"T"} |-> TT("T", "A", <<>>, 3000)]]

InitialDisk ==
    [f \in {"good.json", "dangling.json", "notmember.json", "paidonly.json",
            "noparts.json", "garbage.json"} |->
        CASE f = "good.json" -> Doc(GoodDoc)
          [] f = "dangling.json" -> Doc(DanglingDoc)
          [] f = "notmember.json" -> Doc(NotMemberDoc)
          [] f = "paidonly.json" -> Doc(PaidOnlyDoc)
          [] f = "noparts.json" -> Doc(NoPartsDoc)
          [] f = "garbage.json" -> Garbage]

(***************************************************************************)
(* The input lines.                                                        *)
(***************************************************************************)
AddLines ==
    {Line(<<"add">> \o a, TRUE) :
        a \in {<<>>, <<"A">>, <<"B">>, <<"T">>, <<"all">>, <<"A", "B">>,
               <<"all", "B">>, <<"A", "7">>}}
    \cup {Line(<<"add">>, FALSE), Line(<<"add", "A", "B">>, FALSE)}

PartLines ==
    {Line(<<"part">> \o a, TRUE) :
        a \in {<<>>, <<"T">>, <<"T", "A">>, <<"T", "B">>, <<"T", "A", "B">>,
               <<"T", "C">>, <<"T", "C", "B">>, <<"U", "A">>, <<"all", "A">>,
               <<"T", "all">>, <<"all", "all">>}}
    \cup {Line(<<"part", "T", "B">>, FALSE)}

PaymentLines ==
    {Line(<<"payment">> \o a, TRUE) :
        a \in {<<>>, <<"A">>, <<"A", "30.00">>, <<"B", "30.00">>,
               <<"A", "-5">>, <<"A", "x">>, <<"C", "7">>,
               <<"A", "B", "30.00">>, <<"A", "7", "30.00">>,
               <<"A", "7", "-5">>}}

PrintLines ==
    {Line(<<"print">> \o a, TRUE) : a \in {<<>>, <<"-a">>, <<"-t">>, <<"A">>}}
    \cup {Line(<<"print">>, FALSE)}

SaveLines ==
    {Line(<<"save">> \o a, TRUE) : a \in {<<>>, <<"out.json">>, <<"nodir/x">>}}

LoadLines ==
    {Line(<<"load">> \o a, TRUE) :
        a \in {<<>>, <<"out.json">>, <<"nodir/x">>}
              \cup {<<f>> : f \in DOMAIN InitialDisk}}
    \cup {Line(<<"load", "good.json">>, FALSE)}

\* lines whose verb the match of command has no arm for, the blank line
\* and the empty line read at end of input
OtherLines ==
    {Line(<<"pay", "A", "T", "30.00">>, TRUE), Line(<<"rename", "A", "B">>, TRUE),
     Line(<<"remove", "A">>, TRUE), Line(<<"quit">>, TRUE),
     Line(<<>>, TRUE), Line(<<>>, FALSE)}

(***************************************************************************)
(* The scenario of the spec's section 8, followed line by line: scen is    *)
(* the number of its lines executed so far from the empty store, or -1     *)
(* once the input has left it.                                             *)
(***************************************************************************)
Scenario ==
    <<Line(<<"add", "A", "B">>, TRUE), Line(<<"pay", "A", "T", "30.00">>, TRUE),
      Line(<<"part", "T", "B">>, TRUE), Line(<<"print">>, TRUE)>>

ScenNext(n, line) ==
    IF n >= 0 /\ n < Len(Scenario) /\ line = Scenario[n + 1] THEN n + 1 ELSE 0 - 1

(***************************************************************************)
(* The read loop of main: read a line, run command on it, print the error  *)
(* if any, and go on.  A panic ends the process.                           *)
(***************************************************************************)
NoLine == Line(<<"-">>, FALSE)

Init ==
    /\ participants = EmptyMap
    /\ tasks = EmptyMap
    /\ disk = InitialDisk
    /\ panicked = FALSE
    /\ last = [line |-> NoLine, res |-> Ok, out |-> {}]
    /\ prev = [participants |-> EmptyMap, tasks |-> EmptyMap]
    /\ scen = 0
    /\ ncmds = 0
    /\ rep = FALSE

Step(line) ==
    /\ ~panicked
    /\ ncmds < MaxCmds
    /\ \E o \in {Command(participants, tasks, disk, line)} :
          /\ \A n \in DOMAIN o.participants :
                Len(o.participants[n].payments_made) <= MaxPayments
          /\ participants' = o.participants
          /\ tasks' = o.tasks
          /\ disk' = o.disk
          /\ panicked' = (o.res.k = "Panic")
          /\ last' = [line |-> line, res |-> o.res, out |-> o.out]
    /\ prev' = [participants |-> participants, tasks |-> tasks]
    /\ scen' = ScenNext(scen, line)
    /\ ncmds' = ncmds + 1
    /\ rep' = (line = last.line)

\* the verbs the match of command has an arm for
Recognized == {"add", "part", "payment", "print", "save", "load"}

DoAdd == \E line \in AddLines : RegexSplit(line)[1] = "add" /\ Step(line)
DoPart == \E line \in PartLines : RegexSplit(line)[1] = "part" /\ Step(line)
DoPayment == \E line \in PaymentLines : RegexSplit(line)[1] = "payment" /\ Step(line)
DoPrint == \E line \in PrintLines : RegexSplit(line)[1] = "print" /\ Step(line)
DoSave == \E line \in SaveLines : RegexSplit(line)[1] = "save" /\ Step(line)
DoLoad == \E line \in LoadLines : RegexSplit(line)[1] = "load" /\ Step(line)
DoOther == \E line \in OtherLines : RegexSplit(line)[1] \notin Recognized /\ Step(line)

Next == DoAdd \/ DoPart \/ DoPayment \/ DoPrint \/ DoSave \/ DoLoad \/ DoOther

Spec == Init /\ [][Next]_vars

(***************************************************************************)
(* Vocabulary of the properties.                                           *)
(***************************************************************************)
\* the verb and the arguments command handed to the handler of the last line
LastParts == RegexSplit(last.line)
LastVerb == LastParts[1]
LastArgs == IF Len(LastParts) >= 2 THEN SubSeq(LastParts, 2, Len(LastParts) - 1)
            ELSE <<>>
Ran(verb) == last.line # NoLine /\ last.res.k # "Panic" /\ LastVerb = verb

Reserved == {"all", "-a"}

\* the invariants of the data model (spec section 3) on a store
StoreValid(P, T) ==
    /\ DOMAIN P \cap DOMAIN T = {}
    /\ (DOMAIN P \cup DOMAIN T) \cap Reserved = {}
    /\ \A t \in DOMAIN T : T[t].owner \in T[t].participants /\ T[t].cost >= 0
    /\ \A n \in DOMAIN P :
        /\ \A t \in P[n].paid_tasks : t \in DOMAIN T /\ T[t].owner = P[n].name
        /\ \A t \in DOMAIN P[n].tasks :
              t \in DOMAIN T /\ P[n].name \in T[t].participants

\* the same invariants on the flat form of a snapshot
DocValid(tp) ==
    /\ DOMAIN tp.participants \cap DOMAIN tp.tasks = {}
    /\ (DOMAIN tp.participants \cup DOMAIN tp.tasks) \cap Reserved = {}
    /\ \A t \in DOMAIN tp.tasks :
          tp.tasks[t].owner \in Range(tp.tasks[t].participants)
          /\ tp.tasks[t].cost >= 0
    /\ \A n \in DOMAIN tp.participants :
        /\ \A t \in Range(tp.participants[n].paid_tasks) :
              t \in DOMAIN tp.tasks /\ tp.tasks[t].owner = tp.participants[n].name
        /\ \A t \in Range(tp.participants[n].tasks) :
              t \in DOMAIN tp.tasks
              /\ tp.participants[n].name \in Range(tp.tasks[t].participants)

\* the balance the spec's section 4.2 defines, from the store's own task
\* records
RECURSIVE LiveShares(_, _)
LiveShares(T, S) ==
    IF S = {} THEN Fin(0, 1)
    ELSE LET t == CHOOSE x \in S : TRUE
         IN FAdd(FDiv(T[t].cost, Cardinality(T[t].participants)),
                 LiveShares(T, S \ {t}))

LiveBalance(p, T) ==
    SomeSum(FSub(FSub(LiveShares(T, DOMAIN p.tasks),
                      Fin(SumPaid(T, p.paid_tasks), 1)),
                 Fin(SumSeq(p.payments_made), 1)))

(***************************************************************************)
(* C1.  The balance print reports for a participant counts, for each task  *)
(* they participate in, the task's cost divided by the number of           *)
(* participants the task has in the store at query time.                   *)
(***************************************************************************)
C1_LiveShare ==
    Ran("print") =>
        \A n \in DOMAIN participants :
            (DOMAIN participants[n].tasks \cup participants[n].paid_tasks
                \subseteq DOMAIN tasks)
            => participants[n].sum = LiveBalance(participants[n], tasks)

(***************************************************************************)
(* C2.  After add A B, pay A T 30.00, part T B and print from the empty    *)
(* store, A owes -15.00 and B owes 15.00.                                  *)
(***************************************************************************)
C2_Scenario ==
    scen = Len(Scenario) =>
        /\ {"A", "B"} \subseteq DOMAIN participants
        /\ participants["A"].sum = [k |-> "fin", v |-> 0 - 1500]
        /\ participants["B"].sum = [k |-> "fin", v |-> 1500]

(***************************************************************************)
(* C3.  A line whose first token is one of the nine verbs is never         *)
(* rejected as an unrecognized command.                                    *)
(***************************************************************************)
NineVerbs == {"add", "part", "pay", "payment", "print", "save", "load",
              "rename", "remove"}

C3_VerbsRouted ==
    (last.line # NoLine /\ last.res.k = "Err" /\ LastVerb \in NineVerbs)
        => last.res.msg # LastVerb \o " is not recognized as a command"

(***************************************************************************)
(* C4.  add of a name that already denotes a participant or a task, or     *)
(* that is reserved, reports an error, creates no participant of that      *)
(* name, and leaves an existing participant's tasks, paid tasks and        *)
(* payments as they were.                                                  *)
(***************************************************************************)
C4_AddConflict ==
    Ran("add") =>
        \A i \in DOMAIN LastArgs :
            LET a == LastArgs[i]
            IN (a \in DOMAIN prev.participants \cup DOMAIN prev.tasks \cup Reserved)
               => /\ last.res.k = "Err"
                  /\ a \notin DOMAIN prev.participants
                        => a \notin DOMAIN participants
                  /\ a \in DOMAIN prev.participants
                        => /\ a \in DOMAIN participants
                           /\ participants[a].tasks = prev.participants[a].tasks
                           /\ participants[a].paid_tasks
                                = prev.participants[a].paid_tasks
                           /\ participants[a].payments_made
                                = prev.participants[a].payments_made

(***************************************************************************)
(* C5.  A successful payment X Y a between two existing participants       *)
(* appends +a to X's payments, -a to Y's, and changes no other             *)
(* participant and no task.                                                *)
(***************************************************************************)
C5_Transfer ==
    (Ran("payment") /\ last.res = Ok /\ Len(LastArgs) = 3
        /\ {LastArgs[1], LastArgs[2]} \subseteq DOMAIN prev.participants
        /\ LastArgs[1] # LastArgs[2] /\ LastArgs[3] \in DecimalTokens)
    => LET x == LastArgs[1]
           y == LastArgs[2]
           a == ParseF32Times100(LastArgs[3])
       IN /\ DOMAIN participants = DOMAIN prev.participants
          /\ participants[x].payments_made
                = Append(prev.participants[x].payments_made, a)
          /\ participants[y].payments_made
                = Append(prev.participants[y].payments_made, 0 - a)
          /\ \A n \in DOMAIN participants \ {x, y} :
                participants[n] = prev.participants[n]
          /\ tasks = prev.tasks

(***************************************************************************)
(* C6.  A payment whose amount (its last argument) is non-numeric or       *)
(* negative, or that names a participant that does not exist, returns an   *)
(* error and leaves every payments_made as it was.                         *)
(***************************************************************************)
BadAmount(tok) == tok \notin DecimalTokens \/ ParseF32Times100(tok) < 0

C6_PaymentRejected ==
    (Ran("payment") /\ Len(LastArgs) >= 2
        /\ \/ BadAmount(LastArgs[Len(LastArgs)])
           \/ \E i \in 1..(Len(LastArgs) - 1) :
                 LastArgs[i] \notin DOMAIN prev.participants)
    => /\ last.res.k = "Err"
       /\ DOMAIN participants = DOMAIN prev.participants
       /\ \A n \in DOMAIN participants :
             participants[n].payments_made = prev.participants[n].payments_made

(***************************************************************************)
(* C7.  command never panics: every line gets Ok or an error message and   *)
(* the loop goes on.                                                       *)
(***************************************************************************)
C7_NoPanic == ~panicked

(***************************************************************************)
(* C8.  load of a snapshot whose flat form violates an invariant of the    *)
(* data model returns an error and leaves participants and tasks as they   *)
(* were.                                                                   *)
(***************************************************************************)
\* the last line is a load of a file that holds a document (load leaves
\* the files as they are)
LoadsDoc ==
    /\ last.line # NoLine /\ LastVerb = "load" /\ Len(LastArgs) >= 1
    /\ LastArgs[1] \in DOMAIN disk
    /\ disk[LastArgs[1]].kind = "doc"

C8_CorruptSnapshot ==
    (LoadsDoc /\ ~DocValid(disk[LastArgs[1]].doc))
    => /\ last.res.k = "Err"
       /\ participants = prev.participants
       /\ tasks = prev.tasks

(***************************************************************************)
(* C9.  A load that fails (no path, file cannot be opened, document        *)
(* cannot be deserialized) leaves participants and tasks exactly as they   *)
(* were before it.                                                         *)
(***************************************************************************)
C9_FailedLoadKeepsStore ==
    (Ran("load") /\ last.res.k = "Err")
    => participants = prev.participants /\ tasks = prev.tasks

\* a load failed on a document that does not deserialize, over a store that
\* holds a task and a participant
C9_Witness ==
    /\ Ran("load") /\ last.res.k = "Err"
    /\ LastArgs = <<"garbage.json">>
    /\ prev.participants # EmptyMap /\ prev.tasks # EmptyMap

(***************************************************************************)
(* C10.  Round trip: loading the snapshot saved from a store that          *)
(* satisfies the data-model invariants yields the same participants, the   *)
(* same tasks (owner, participants, cost), the same associations and paid  *)
(* tasks and the same payments.                                            *)
(***************************************************************************)
SameLedger(P1, T1, P2, T2) ==
    /\ DOMAIN P1 = DOMAIN P2
    /\ T1 = T2
    /\ \A n \in DOMAIN P1 :
        /\ P1[n].name = P2[n].name
        /\ DOMAIN P1[n].tasks = DOMAIN P2[n].tasks
        /\ P1[n].paid_tasks = P2[n].paid_tasks
        /\ P1[n].payments_made = P2[n].payments_made

\* the last line loaded a file that holds what save writes for the store
\* the load started from
LoadsOwnSave ==
    /\ LoadsDoc
    /\ disk[LastArgs[1]]
         = Doc(TransportPaymentFrom(prev.participants, prev.tasks))
    /\ StoreValid(prev.participants, prev.tasks)

C10_RoundTrip ==
    LoadsOwnSave =>
        /\ last.res = Ok
        /\ SameLedger(participants, tasks, prev.participants, prev.tasks)

\* the round trip of a store with a task, a payment made, and a participant
\* whose own record of a task differs from the store's
C10_Witness ==
    /\ LoadsOwnSave /\ last.res = Ok
    /\ \E n \in DOMAIN prev.participants :
          \E t \in DOMAIN prev.participants[n].tasks :
              prev.participants[n].tasks[t] # prev.tasks[t]
    /\ \E n \in DOMAIN prev.participants : prev.participants[n].paid_tasks # {}

(***************************************************************************)
(* C11.  Bulk partial failure.  add and part, given a list of names,       *)
(* apply every valid name wherever the invalid ones stand in the list,     *)
(* and return an error exactly when some name was invalid: one message     *)
(* per invalid name, joined by newlines.  A name is invalid for add when   *)
(* verify_name rejects it (reserved, a participant, a task, or given       *)
(* earlier in the list) and for part when it names no participant.         *)
(***************************************************************************)
RECURSIVE Join(_)
Join(msgs) == IF Len(msgs) = 1 THEN msgs[1]
              ELSE msgs[1] \o "\n" \o Join(Tail(msgs))

Expected(msgs) == IF msgs = <<>> THEN Ok ELSE Err(Join(msgs))

\* the names add takes as known when it reaches position i of its list
KnownAt(args, i) == DOMAIN prev.participants \cup {args[j] : j \in 1..(i - 1)}

AddInvalid(args, i) ==
    args[i] \in Reserved \cup KnownAt(args, i) \cup DOMAIN prev.tasks

RECURSIVE AddMsgs(_, _)
AddMsgs(args, i) ==
    IF i > Len(args) THEN <<>>
    ELSE (IF AddInvalid(args, i)
          THEN <<VerifyName([x \in KnownAt(args, i) |-> 0], prev.tasks,
                            args[i]).msg>>
          ELSE <<>>) \o AddMsgs(args, i + 1)

RECURSIVE PartMsgs(_, _)
PartMsgs(args, i) ==
    IF i > Len(args) THEN <<>>
    ELSE (IF args[i] \notin DOMAIN prev.participants
          THEN <<VerifyPart(prev.participants, Some(args[i])).msg>>
          ELSE <<>>) \o PartMsgs(args, i + 1)

\* the last line was a part of a list of names on an existing task
PartOnTask ==
    /\ Ran("part") /\ Len(LastArgs) >= 2
    /\ LastArgs[1] \in DOMAIN prev.tasks
    /\ ~(LastArgs[1] = "all" /\ LastArgs[2] = "all")

C11_BulkPartialFailure ==
    /\ (Ran("add") /\ LastArgs # <<>>) =>
          /\ \A i \in DOMAIN LastArgs :
                ~AddInvalid(LastArgs, i) => LastArgs[i] \in DOMAIN participants
          /\ last.res = Expected(AddMsgs(LastArgs, 1))
    /\ PartOnTask =>
          /\ \A i \in 2..Len(LastArgs) :
                LastArgs[i] \in DOMAIN prev.participants =>
                    /\ LastArgs[1] \in DOMAIN participants[LastArgs[i]].tasks
                    /\ LastArgs[i] \in tasks[LastArgs[1]].participants
          /\ last.res = Expected(PartMsgs(LastArgs, 2))

\* part T C B where C names no participant and B does: B is applied after
\* the invalid C and the error names C alone
C11_Witness ==
    /\ PartOnTask /\ LastArgs = <<"T", "C", "B">>
    /\ "B" \in DOMAIN prev.participants
    /\ "B" \notin prev.tasks["T"].participants
    /\ "B" \in tasks["T"].participants
    /\ last.res = Err("Participant C has not yet been added")

(***************************************************************************)
(* C12.  In every reachable state no name denotes both a participant and   *)
(* a task.                                                                 *)
(***************************************************************************)
C12_NamesDisjoint == DOMAIN participants \cap DOMAIN tasks = {}

(***************************************************************************)
(* C13.  In every reachable state no participant and no task is named      *)
(* "all" or "-a".                                                          *)
(***************************************************************************)
C13_NoReservedNames == (DOMAIN participants \cup DOMAIN tasks) \cap Reserved = {}

(***************************************************************************)
(* C14.  part T P... where T denotes no task returns an error and changes  *)
(* nothing: no participant's tasks, no task's participants, no cached      *)
(* balance.                                                                *)
(***************************************************************************)
C14_PartUnknownTask ==
    (Ran("part") /\ Len(LastArgs) >= 1 /\ LastArgs[1] \notin DOMAIN prev.tasks)
    => /\ last.res.k = "Err"
       /\ participants = prev.participants
       /\ tasks = prev.tasks

\* part U A with no task U, where A is a participant whose balance is cached
C14_Witness ==
    /\ Ran("part") /\ LastArgs = <<"U", "A">>
    /\ "U" \notin DOMAIN prev.tasks
    /\ "A" \in DOMAIN prev.participants
    /\ prev.participants["A"].sum # NoSum
    /\ last.res = Err("Task U has not yet been added")

(***************************************************************************)
(* C15.  part T P... on an existing task T: every listed P is a            *)
(* participant afterwards (created if it was absent), has T among its      *)
(* tasks, is among T's participants, and has no cached balance.            *)
(***************************************************************************)
PartNames == {LastArgs[i] : i \in 2..Len(LastArgs)}

C15_PartAssociates ==
    PartOnTask =>
        \A P \in PartNames \ {"all"} :
            /\ P \in DOMAIN participants
            /\ prev.tasks[LastArgs[1]].name \in DOMAIN participants[P].tasks
            /\ P \in tasks[LastArgs[1]].participants
            /\ participants[P].sum = NoSum

(***************************************************************************)
(* C15, amended.  part T P... on an existing task T: every listed P that   *)
(* already denotes a participant has T among its tasks, is among T's       *)
(* participants and has no cached balance; T gains no other participant;   *)
(* a listed name that denotes no participant is not created, and the       *)
(* command returns an error exactly when there is such a name.             *)
(***************************************************************************)
C15_PartAssociatesKnown ==
    PartOnTask =>
        LET T == LastArgs[1]
            known == PartNames \cap DOMAIN prev.participants
        IN /\ DOMAIN participants = DOMAIN prev.participants
           /\ tasks[T].participants = prev.tasks[T].participants \cup known
           /\ \A P \in known :
                 /\ prev.tasks[T].name \in DOMAIN participants[P].tasks
                 /\ participants[P].sum = NoSum
           /\ (last.res.k = "Err") <=> (PartNames \ known # {})

\* part T C B where B is a participant outside T with a cached balance and C
\* is no participant
C15_Witness ==
    /\ PartOnTask /\ LastArgs = <<"T", "C", "B">>
    /\ "C" \notin DOMAIN prev.participants
    /\ "B" \in DOMAIN prev.participants
    /\ prev.participants["B"].sum # NoSum
    /\ "T" \notin DOMAIN prev.participants["B"].tasks
    /\ "B" \notin prev.tasks["T"].participants
    /\ "C" \notin DOMAIN participants
    /\ participants["B"].sum = NoSum

(***************************************************************************)
(* C16.  The token all in part fans out: part all P associates P with      *)
(* every task, part T all associates every participant with T, and         *)
(* part all all associates every participant with every task.              *)
(***************************************************************************)
PartWithAll == Ran("part") /\ Len(LastArgs) >= 2 /\ "all" \in Range(LastArgs)

TargetTasks ==
    IF LastArgs[1] = "all" THEN DOMAIN prev.tasks
    ELSE {LastArgs[1]} \cap DOMAIN prev.tasks

TargetParticipants ==
    IF "all" \in PartNames THEN DOMAIN prev.participants
    ELSE PartNames \cap DOMAIN prev.participants

C16_AllFansOut ==
    PartWithAll =>
        \A t \in TargetTasks : \A p \in TargetParticipants :
            /\ p \in tasks[t].participants
            /\ prev.tasks[t].name \in DOMAIN participants[p].tasks

(***************************************************************************)
(* C17.  Two consecutive print commands, with no command between them,     *)
(* report the same balance for every participant.                          *)
(***************************************************************************)
C17_PrintIdempotent ==
    [][(Ran("print") /\ Ran("print")') =>
          /\ \A n \in DOMAIN participants :
                n \in DOMAIN participants' /\ participants'[n].sum = participants[n].sum
          /\ (last'.line = last.line => last'.out = last.out)]_vars

\* the second of two equal print lines, on a store where somebody has a task
C17_Witness ==
    /\ Ran("print") /\ rep
    /\ LastArgs = <<>>
    /\ last.out = Balances(participants, DOMAIN participants)
    /\ \E n \in DOMAIN participants :
          /\ DOMAIN participants[n].tasks # {}
          /\ participants[n].sum.k = "fin" /\ participants[n].sum.v # 0
          /\ participants[n].sum = prev.participants[n].sum

(***************************************************************************)
(* C18.  print, with any arguments, and save leave unchanged the set of    *)
(* participants, each participant's tasks, paid tasks and payments, and    *)
(* every task's owner, participants and cost.                              *)
(***************************************************************************)
C18_ReadOnly ==
    (Ran("print") \/ Ran("save")) =>
        /\ tasks = prev.tasks
        /\ DOMAIN participants = DOMAIN prev.participants
        /\ \A n \in DOMAIN participants :
              /\ participants[n].name = prev.participants[n].name
              /\ participants[n].tasks = prev.participants[n].tasks
              /\ participants[n].paid_tasks = prev.participants[n].paid_tasks
              /\ participants[n].payments_made = prev.participants[n].payments_made

\* print A on a ledger with a task and a payment, where it computes a balance
\* that was not cached
C18_Witness ==
    /\ Ran("print") /\ LastArgs = <<"A">>
    /\ DOMAIN tasks # {}
    /\ "A" \in DOMAIN prev.participants
    /\ prev.participants["A"].sum = NoSum
    /\ participants["A"].sum # NoSum
    /\ prev.participants["A"].payments_made # <<>>
    /\ prev.participants["A"].paid_tasks # {}

(***************************************************************************)
(* C19.  add with no names, part with fewer than two arguments, payment    *)
(* with a participant or the amount missing (fewer than the three          *)
(* arguments payer, payee, amount) and load with no path each return an    *)
(* error and leave the store unchanged.                                    *)
(***************************************************************************)
MissingArguments ==
    \/ Ran("add") /\ Len(LastArgs) = 0
    \/ Ran("part") /\ Len(LastArgs) < 2
    \/ Ran("payment") /\ Len(LastArgs) < 3
    \/ Ran("load") /\ Len(LastArgs) = 0

C19_MissingArguments ==
    MissingArguments =>
        /\ last.res.k = "Err"
        /\ participants = prev.participants
        /\ tasks = prev.tasks

(***************************************************************************)
(* C20.  In every reachable state, every task name among a participant's   *)
(* tasks denotes a task of the store, and that task's participants         *)
(* include the participant's name.                                         *)
(***************************************************************************)
C20_TasksBackReferenced ==
    \A n \in DOMAIN participants :
        \A t \in DOMAIN participants[n].tasks :
            /\ t \in DOMAIN tasks
            /\ participants[n].name \in tasks[t].participants

(***************************************************************************)
(* C21.  In every reachable state every task's owner is among its          *)
(* participants, so no task has an empty participant set and no share is   *)
(* a division by a participant count of zero.                              *)
(***************************************************************************)
C21_OwnerParticipates ==
    /\ \A t \in DOMAIN tasks :
          tasks[t].owner \in tasks[t].participants
    /\ \A n \in DOMAIN participants :
          \A t \in DOMAIN participants[n].tasks :
              participants[n].tasks[t].participants # {}

(***************************************************************************)
(* C22.  In every reachable state every task name among a participant's    *)
(* paid tasks denotes a task of the store whose owner is that participant, *)
(* and is among the participant's own tasks, where the balance calculation *)
(* looks it up.                                                            *)
(***************************************************************************)
C22_PaidTasksOwned ==
    \A n \in DOMAIN participants :
        \A t \in participants[n].paid_tasks :
            /\ t \in DOMAIN tasks
            /\ tasks[t].owner = participants[n].name
            /\ t \in DOMAIN participants[n].tasks

(***************************************************************************)
(* C23.  In every reachable state that satisfies the data-model            *)
(* invariants, for every task t the shares of t that the balance           *)
(* calculation charges to t's participants sum to t's cost, within one     *)
(* minor unit.                                                             *)
(***************************************************************************)
\* what calculate adds to p's balance for the task named t
ChargedShare(p, t) ==
    IF t \in DOMAIN p.tasks
    THEN FDiv(p.tasks[t].cost, Cardinality(p.tasks[t].participants))
    ELSE Fin(0, 1)

RECURSIVE ChargedShares(_, _)
ChargedShares(t, S) ==
    IF S = {} THEN Fin(0, 1)
    ELSE LET n == CHOOSE x \in S : TRUE
         IN FAdd(ChargedShare(participants[n], t), ChargedShares(t, S \ {n}))

WithinOne(a, c) ==
    /\ a.k = "fin"
    /\ a.num - c * a.den <= a.den
    /\ c * a.den - a.num <= a.den

\* every participant of a task is a participant of the store that has the
\* task among its tasks
MembersListTask ==
    \A t \in DOMAIN tasks : \A n \in tasks[t].participants :
        n \in DOMAIN participants /\ t \in DOMAIN participants[n].tasks

C23_SharesSumToCost ==
    (StoreValid(participants, tasks) /\ MembersListTask) =>
        \A t \in DOMAIN tasks :
            WithinOne(ChargedShares(t, tasks[t].participants \cap DOMAIN participants),
                      tasks[t].cost)

(***************************************************************************)
(* C24.  After a mutating command (add, part, payment, load) no            *)
(* participant retains a cached balance computed before it: here, in the   *)
(* weakest reading, no participant retains a cached balance that the       *)
(* command has made wrong.                                                 *)
(***************************************************************************)
Mutating == {"add", "part", "payment", "load"}

C24_CacheInvalidated ==
    (\E verb \in Mutating : Ran(verb)) =>
        \A n \in DOMAIN participants :
            participants[n].sum # NoSum =>
                participants[n].sum = ParticipantCalculate(participants[n]).sum

(***************************************************************************)
(* C25.  The arguments handed to a verb's handler are exactly the tokens   *)
(* that follow the verb on the line, whether or not the line ends in white *)
(* space: the command does what its handler does on all of them.           *)
(***************************************************************************)
C25_ArgumentsKept ==
    (last.line # NoLine /\ Len(last.line.toks) >= 2) =>
        \E o \in {Dispatch(prev.participants, prev.tasks, disk,
                           last.line.toks[1], Tail(last.line.toks))} :
            /\ last.res = o.res
            /\ participants = o.participants
            /\ tasks = o.tasks

(***************************************************************************)
(* C26.  In every reachable state the task record a participant holds for  *)
(* a task name (the cost and participants its share is computed from)      *)
(* equals the store's record of that task.                                 *)
(***************************************************************************)
C26_HeldRecordIsStoreRecord ==
    \A n \in DOMAIN participants :
        \A t \in DOMAIN participants[n].tasks :
            t \in DOMAIN tasks => participants[n].tasks[t] = tasks[t]

(***************************************************************************)
(* C27.  part is idempotent: after the same part T P... line has run twice *)
(* in a row, the participants, the task memberships and the balances print *)
(* would report are those after the first run.                             *)
(***************************************************************************)
C27_PartIdempotent ==
    (Ran("part") /\ rep) =>
        /\ DOMAIN participants = DOMAIN prev.participants
        /\ DOMAIN tasks = DOMAIN prev.tasks
        /\ \A t \in DOMAIN tasks :
              tasks[t].participants = prev.tasks[t].participants
        /\ \A n \in DOMAIN participants :
              /\ DOMAIN participants[n].tasks = DOMAIN prev.participants[n].tasks
              /\ (~CalculatePanics(participants[n])
                     /\ ~CalculatePanics(prev.participants[n]))
                 => ParticipantCalculate(participants[n]).sum
                        = ParticipantCalculate(prev.participants[n]).sum

(***************************************************************************)
(* C28.  Zero-sum: in every reachable state that satisfies the data-model  *)
(* invariants the balances of all participants sum to zero, up to one      *)
(* minor unit per participant, and a direct transfer leaves the sum        *)
(* unchanged.                                                              *)
(***************************************************************************)
CanCalculate(P) ==
    /\ ~PaymentCalculatePanics(P)
    /\ \A n \in DOMAIN P : ParticipantCalculate(P[n]).sum.k = "fin"

RECURSIVE TotalBalance(_, _)
TotalBalance(P, S) ==
    IF S = {} THEN 0
    ELSE LET n == CHOOSE x \in S : TRUE
         IN ParticipantCalculate(P[n]).sum.v + TotalBalance(P, S \ {n})

C28_ZeroSum ==
    /\ (StoreValid(participants, tasks) /\ MembersListTask
            /\ ~PaymentCalculatePanics(participants))
       => /\ CanCalculate(participants)
          /\ TotalBalance(participants, DOMAIN participants)
                 <= Cardinality(DOMAIN participants)
          /\ 0 - TotalBalance(participants, DOMAIN participants)
                 <= Cardinality(DOMAIN participants)
    /\ (Ran("payment") /\ last.res = Ok /\ CanCalculate(participants)
            /\ CanCalculate(prev.participants))
       => TotalBalance(participants, DOMAIN participants)
              = TotalBalance(prev.participants, DOMAIN prev.participants)

====
